---------------------------- MODULE Spec2Model ----------------------------
(***************************************************************************)
(* Model of the APV calculator: the valuation engine and the financial     *)
(* data adapter of src/apv_calculator.py (class APVCalculator) and the     *)
(* session handling of src/app.py (main).                                  *)
(*                                                                         *)
(* Numbers are exact rationals; a Python float that is NaN, an absent      *)
(* value (None) and a raised exception are values of their own, so that    *)
(* dropping, propagating and failing are distinguishable.                  *)
(***************************************************************************)
EXTENDS Integers, Sequences, FiniteSets, TLC

VARIABLES
    req,             \* the call under examination: operation and arguments
    res,             \* its outcome: a returned value or a raised exception
    financial_data,  \* st.session_state.financial_data (app.py:12-13, 21)
    lastFetch,       \* history: ticker and outcome of the most recent fetch
    lastLoaded,      \* history: ticker of the most recent fetch that returned
    view             \* what the last run of main() used and computed

vars == <<req, res, financial_data, lastFetch, lastLoaded, view>>

---------------------------------------------------------------------------
(* Bounds of the model.                                                    *)

\* longest cash-flow series / list of variations drawn as an input
MaxLen == 3
\* cost-of-debt grid towards zero: 1/2, 1/4, ..., 1/2^MaxHalvings
MaxHalvings == 3
\* most reporting columns of a provider statement
MaxCols == 2
\* most runs of main() in one session
MaxRuns == 3

---------------------------------------------------------------------------
(* Values: Python floats as exact rationals n/d (d > 0, lowest terms),     *)
(* float('nan'), None, and the poison value of an exception raised while   *)
(* an expression is evaluated.                                             *)

RECURSIVE GCD(_, _)
GCD(a, b) == IF b = 0 THEN a ELSE GCD(b, a % b)

AbsInt(i) == IF i < 0 THEN -i ELSE i

Q(n, d) ==
    LET s == IF d < 0 THEN -1 ELSE 1
        g == GCD(AbsInt(n), AbsInt(d))
    IN  [k |-> "num", n |-> (s * n) \div g, d |-> (s * d) \div g]

Zero == Q(0, 1)
One == Q(1, 1)
NaN == [k |-> "nan", n |-> 0, d |-> 1]
None == [k |-> "none", n |-> 0, d |-> 1]
ZeroDivisionError == [k |-> "ZeroDivisionError", n |-> 0, d |-> 1]
TypeError == [k |-> "TypeError", n |-> 0, d |-> 1]

IsNum(x) == x.k = "num"
IsNaN(x) == x.k = "nan"
IsExc(x) == x.k \in {"ZeroDivisionError", "TypeError"}

\* An arithmetic operation on operands x, y whose numeric case is v:
\* an exception already raised wins, None is a TypeError, NaN propagates.
Arith(x, y, v) ==
    IF IsExc(x) THEN x
    ELSE IF IsExc(y) THEN y
    ELSE IF x.k = "none" \/ y.k = "none" THEN TypeError
    ELSE IF IsNaN(x) \/ IsNaN(y) THEN NaN
    ELSE v

Add(x, y) == Arith(x, y, Q(x.n * y.d + y.n * x.d, x.d * y.d))
Sub(x, y) == Arith(x, y, Q(x.n * y.d - y.n * x.d, x.d * y.d))
Mul(x, y) == Arith(x, y, Q(x.n * y.n, x.d * y.d))

\* Python float division: a zero divisor raises, whatever the dividend.
Div(x, y) ==
    IF IsExc(x) THEN x
    ELSE IF IsExc(y) THEN y
    ELSE IF x.k = "none" \/ y.k = "none" THEN TypeError
    ELSE IF IsNum(y) /\ y.n = 0 THEN ZeroDivisionError
    ELSE IF IsNaN(x) \/ IsNaN(y) THEN NaN
    ELSE Q(x.n * y.d, x.d * y.n)

RECURSIVE Pow(_, _)
Pow(x, e) == IF e = 0 THEN One ELSE Mul(Pow(x, e - 1), x)

AbsV(x) == IF IsNum(x) THEN Q(AbsInt(x.n), x.d) ELSE x
Neg(x) == IF IsNum(x) THEN Q(-x.n, x.d) ELSE x
Leq(x, y) == x.n * y.d <= y.n * x.d

\* The outcome of a call.
Return(v) == [kind |-> "return", v |-> v]
Raise(e) == [kind |-> "raise", v |-> e]
Outcome(v) == IF IsExc(v) THEN Raise(v) ELSE Return(v)

---------------------------------------------------------------------------
(* Valuation engine: src/apv_calculator.py                                 *)

\* pd.isna(cf): true of None and of NaN
isna(cf) == cf.k = "none" \/ IsNaN(cf)

\* mutant: a None/NaN entry is kept as 0.0 instead of being dropped
RECURSIVE CleanCashFlowsZeroFilled(_)
CleanCashFlowsZeroFilled(cash_flows) ==
    IF cash_flows = <<>> THEN <<>>
    ELSE LET cf == Head(cash_flows)
             rest == CleanCashFlowsZeroFilled(Tail(cash_flows))
         IN  <<IF cf.k # "none" /\ ~isna(cf) THEN AbsV(cf) ELSE Zero>> \o rest

\* lines 19-22: keep what is neither None nor NaN, as abs(float(cf))
RECURSIVE CleanCashFlows(_)
CleanCashFlows(cash_flows) ==
    IF cash_flows = <<>> THEN <<>>
    ELSE LET cf == Head(cash_flows)
             rest == CleanCashFlows(Tail(cash_flows))
         IN  IF cf.k # "none" /\ ~isna(cf) THEN <<AbsV(cf)>> \o rest ELSE rest

\* lines 28-30: npv after the first i entries of enumerate(clean_cash_flows);
\* entry i of the sequence is enumerate's t = i - 1, discounted by t + 1 = i
RECURSIVE NpvLoop(_, _, _)
NpvLoop(clean, discount_rate, i) ==
    IF i = 0 THEN Zero
    ELSE Add(NpvLoop(clean, discount_rate, i - 1),
             Div(clean[i], Pow(Add(One, discount_rate), i)))

calculate_npv(cash_flows, discount_rate) ==
    LET clean_cash_flows == CleanCashFlows(cash_flows)
    IN  IF clean_cash_flows = <<>> THEN Return(Zero)
        ELSE Outcome(NpvLoop(clean_cash_flows, discount_rate,
                             Len(clean_cash_flows)))

calculate_tax_shield(debt, tax_rate, cost_of_debt) ==
    IF debt.k = "none" \/ tax_rate.k = "none" \/ cost_of_debt.k = "none"
    THEN Return(Zero)
    ELSE IF IsNum(cost_of_debt) /\ cost_of_debt.n = 0
    THEN Outcome(Mul(debt, tax_rate))
    ELSE Outcome(Mul(Mul(debt, tax_rate),
                     Sub(One, Div(One, Add(One, cost_of_debt)))))

calculate_apv(npv, tax_shield) == Outcome(Add(npv, tax_shield))

\* mutant: a variation already seen is skipped
RECURSIVE ScaledValuesDeduplicated(_, _)
ScaledValuesDeduplicated(base_value, variations) ==
    IF variations = <<>> THEN <<>>
    ELSE LET n == Len(variations)
             front == SubSeq(variations, 1, n - 1)
             sofar == ScaledValuesDeduplicated(base_value, front)
         IN  IF \E j \in 1..(n - 1) : variations[j] = variations[n]
             THEN sofar
             ELSE Append(sofar, Mul(base_value, Add(One, variations[n])))

\* line 69: the list comprehension over variations, in order
ScaledValues(base_value, variations) ==
    [i \in 1..Len(variations) |-> Mul(base_value, Add(One, variations[i]))]

sensitivity_analysis(base_value, variations) ==
    LET values == ScaledValues(base_value, variations)
    IN  IF \E i \in 1..Len(values) : IsExc(values[i])
        THEN Raise(TypeError)
        ELSE Return([variations |-> variations, values |-> values])

---------------------------------------------------------------------------
(* Inputs of the engine calls.                                             *)

RECURSIVE SeqsUpTo(_, _)
SeqsUpTo(S, n) ==
    IF n = 0 THEN {<<>>}
    ELSE LET shorter == SeqsUpTo(S, n - 1)
         IN  shorter \cup {Append(s, x) : s \in {t \in shorter : Len(t) = n - 1}, x \in S}

RECURSIVE Pow2(_)
Pow2(e) == IF e = 0 THEN 1 ELSE 2 * Pow2(e - 1)

CashFlowValues == {None, NaN, Q(-10, 1), Q(0, 1), Q(5, 1)}
DiscountRates == {Q(-2, 1), Q(-1, 1), Q(-1, 2), Q(0, 1), Q(1, 10)}
DebtValues == {None, Q(-400, 1), Q(0, 1), Q(1000, 1)}
TaxRates == {None, Q(0, 1), Q(1, 4)}
CostsOfDebt ==
    {None, NaN, Q(-1, 1), Q(-1, 2), Q(0, 1), Q(1, 20)}
        \cup {Q(1, Pow2(e)) : e \in 1..MaxHalvings}
ApvTerms == {NaN, Q(-250, 1), Q(0, 1), Q(10000, 11)}
BaseValues == {NaN, Q(-30, 1), Q(0, 1), Q(100, 1)}
Variations == {Q(-1, 5), Q(0, 1), Q(1, 10), Q(2, 1)}

NpvRequests ==
    [op : {"calculate_npv"}, cash_flows : SeqsUpTo(CashFlowValues, MaxLen),
     discount_rate : DiscountRates]
TaxShieldRequests ==
    [op : {"calculate_tax_shield"}, debt : DebtValues, tax_rate : TaxRates,
     cost_of_debt : CostsOfDebt]
ApvRequests == [op : {"calculate_apv"}, npv : ApvTerms, tax_shield : ApvTerms]
SensitivityRequests ==
    [op : {"sensitivity_analysis"}, base_value : BaseValues,
     variations : SeqsUpTo(Variations, MaxLen)]

Pending == [kind |-> "pending", v |-> Zero]
NoRequest == [op |-> "none"]

---------------------------------------------------------------------------
(* Financial data adapter: src/apv_calculator.py, get_financial_data.      *)
(* A statement is a function from the row labels it has (its index) to     *)
(* rows; a row is the sequence of its values, most recent column first.    *)

\* mutant: the older label is looked up first
OperatingCashflowLegacyFirst(cashflow) ==
    IF "Total Cash From Operating Activities" \in DOMAIN cashflow
    THEN cashflow["Total Cash From Operating Activities"]
    ELSE IF "Operating Cash Flow" \in DOMAIN cashflow
    THEN cashflow["Operating Cash Flow"]
    ELSE [i \in 1..4 |-> Zero]

\* lines 86-91
OperatingCashflow(cashflow) ==
    IF "Operating Cash Flow" \in DOMAIN cashflow
    THEN cashflow["Operating Cash Flow"]
    ELSE IF "Total Cash From Operating Activities" \in DOMAIN cashflow
    THEN cashflow["Total Cash From Operating Activities"]
    ELSE [i \in 1..4 |-> Zero]

\* line 94
debt_labels == <<"Total Debt", "Long Term Debt", "Total Long Term Debt">>

\* mutant: the loop without its break, so the last label present wins
RECURSIVE DebtLoopNoBreak(_, _)
DebtLoopNoBreak(balance_sheet, i) ==
    IF i > Len(debt_labels) THEN Zero
    ELSE IF \E j \in (i + 1)..Len(debt_labels) : debt_labels[j] \in DOMAIN balance_sheet
    THEN DebtLoopNoBreak(balance_sheet, i + 1)
    ELSE IF debt_labels[i] \in DOMAIN balance_sheet
    THEN balance_sheet[debt_labels[i]][1]
    ELSE Zero

\* lines 95-99: the loop over debt_labels from position i, with its break
RECURSIVE DebtLoop(_, _)
DebtLoop(balance_sheet, i) ==
    IF i > Len(debt_labels) THEN Zero
    ELSE IF debt_labels[i] \in DOMAIN balance_sheet
    THEN balance_sheet[debt_labels[i]][1]
    ELSE DebtLoop(balance_sheet, i + 1)

TotalDebt(balance_sheet) == DebtLoop(balance_sheet, 1)

\* mutant: the division without the guard on a zero pretax income
EffectiveTaxRateUnguarded(income_stmt) ==
    IF "Income Tax Expense" \in DOMAIN income_stmt
       /\ "Pretax Income" \in DOMAIN income_stmt
    THEN Div(income_stmt["Income Tax Expense"][1], income_stmt["Pretax Income"][1])
    ELSE Q(1, 4)

\* lines 102-107
EffectiveTaxRate(income_stmt) ==
    IF "Income Tax Expense" \in DOMAIN income_stmt
       /\ "Pretax Income" \in DOMAIN income_stmt
    THEN LET tax_expense == income_stmt["Income Tax Expense"][1]
             pretax_income == income_stmt["Pretax Income"][1]
         IN  IF ~(IsNum(pretax_income) /\ pretax_income.n = 0)
             THEN Div(tax_expense, pretax_income)
             ELSE Q(1, 4)
    ELSE Q(1, 4)

\* lines 109-116
Snapshot(balance_sheet, income_stmt, cashflow) ==
    [operating_cashflow |-> OperatingCashflow(cashflow),
     total_debt |-> TotalDebt(balance_sheet),
     effective_tax_rate |-> EffectiveTaxRate(income_stmt),
     balance_sheet |-> balance_sheet,
     income_stmt |-> income_stmt,
     cashflow |-> cashflow]

\* lines 118-120: the one error raised, built from the ticker and str(e)
RetrievalError(ticker, e) ==
    [kind |-> "raise",
     v |-> [message |-> "Errore nel recupero dei dati per", ticker |-> ticker,
            cause |-> e]]

\* mutant: a failed fetch is swallowed and the fallbacks are returned
get_financial_data_swallowing(ticker, response) ==
    IF response.kind = "raise"
    THEN Return(Snapshot(<<>>, <<>>, <<>>))
    ELSE Return(Snapshot(response.balance_sheet, response.income_stmt,
                         response.cashflow))

\* lines 77-120; response is what yf.Ticker(ticker) and its three statement
\* properties yield: the statements, or the exception raised on the way
get_financial_data(ticker, response) ==
    IF response.kind = "raise"
    THEN RetrievalError(ticker, response.cause)
    ELSE Return(Snapshot(response.balance_sheet, response.income_stmt,
                         response.cashflow))

---------------------------------------------------------------------------
(* Inputs of the adapter: provider responses.                              *)

Tickers == {"AAPL", "MSFT"}
\* network failure, unknown ticker, malformed response
Causes == {"ConnectionError", "KeyError", "AttributeError"}

CashLabels == {"Operating Cash Flow", "Total Cash From Operating Activities"}
BalanceLabels == {"Total Debt", "Long Term Debt", "Total Long Term Debt"}
IncomeLabels == {"Income Tax Expense", "Pretax Income"}

CashAmounts == {NaN, Q(-6, 1), Q(4, 1)}
BalanceAmounts == {Q(0, 1), Q(7, 1)}
IncomeAmounts == {NaN, Q(0, 1), Q(3, 1)}

\* every statement over the labels with 1..MaxCols columns of the amounts
Statements(labels, amounts) ==
    UNION {[present -> [1..n -> amounts]] :
               present \in SUBSET labels, n \in 1..MaxCols}

TypicalCashflow ==
    [l \in CashLabels \cup {"Free Cash Flow"} |-> <<Q(4, 1)>>]
TypicalBalance ==
    [l \in BalanceLabels \cup {"Total Assets"} |-> <<Q(7, 1)>>]
TypicalIncome ==
    [l \in IncomeLabels |-> <<Q(3, 1)>>]

Tables(b, i, c) ==
    [kind |-> "tables", balance_sheet |-> b, income_stmt |-> i, cashflow |-> c]

\* one statement ranges over all its shapes while the other two are typical
Responses ==
    {[kind |-> "raise", cause |-> e] : e \in Causes}
        \cup {Tables(TypicalBalance, TypicalIncome, c) :
                  c \in Statements(CashLabels, CashAmounts)}
        \cup {Tables(b, TypicalIncome, TypicalCashflow) :
                  b \in Statements(BalanceLabels, BalanceAmounts)}
        \cup {Tables(TypicalBalance, i, TypicalCashflow) :
                  i \in Statements(IncomeLabels, IncomeAmounts)}

FetchRequests ==
    [op : {"get_financial_data"}, ticker : Tickers, response : Responses]

---------------------------------------------------------------------------
(* Specification of the calls: a call is drawn, then made.                 *)

NoData == [kind |-> "None"]
NoView == [run |-> 0]
NoFetch == [ticker |-> "-"]

InitCalls ==
    /\ req \in NpvRequests \cup TaxShieldRequests \cup ApvRequests
                 \cup SensitivityRequests \cup FetchRequests
    /\ res = Pending
    /\ financial_data = NoData
    /\ lastFetch = NoFetch
    /\ lastLoaded = "-"
    /\ view = NoView

CallNpv ==
    /\ req.op = "calculate_npv" /\ res = Pending
    /\ res' = calculate_npv(req.cash_flows, req.discount_rate)
    /\ UNCHANGED <<req, financial_data, lastFetch, lastLoaded, view>>

CallTaxShield ==
    /\ req.op = "calculate_tax_shield" /\ res = Pending
    /\ res' = calculate_tax_shield(req.debt, req.tax_rate, req.cost_of_debt)
    /\ UNCHANGED <<req, financial_data, lastFetch, lastLoaded, view>>

CallApv ==
    /\ req.op = "calculate_apv" /\ res = Pending
    /\ res' = calculate_apv(req.npv, req.tax_shield)
    /\ UNCHANGED <<req, financial_data, lastFetch, lastLoaded, view>>

CallSensitivity ==
    /\ req.op = "sensitivity_analysis" /\ res = Pending
    /\ res' = sensitivity_analysis(req.base_value, req.variations)
    /\ UNCHANGED <<req, financial_data, lastFetch, lastLoaded, view>>

CallGetFinancialData ==
    /\ req.op = "get_financial_data" /\ res = Pending
    /\ res' = get_financial_data(req.ticker, req.response)
    /\ UNCHANGED <<req, financial_data, lastFetch, lastLoaded, view>>

Next ==
    \/ CallNpv
    \/ CallTaxShield
    \/ CallApv
    \/ CallSensitivity
    \/ CallGetFinancialData

Spec == InitCalls /\ [][Next]_vars

---------------------------------------------------------------------------
(* Claims about the valuation engine.                                      *)

Made(op) == req.op = op /\ res # Pending
MinusOne == Q(-1, 1)

\* the input series with every None/NaN entry removed
Kept(cash_flows) == SelectSeq(cash_flows, IsNum)

\* sum over positions t..Len-1 (0-based) of |kept_t| / (1 + rate)^(t+1)
RECURSIVE DiscountedSum(_, _, _)
DiscountedSum(kept, rate, t) ==
    IF t >= Len(kept) THEN Zero
    ELSE Add(Div(AbsV(kept[t + 1]), Pow(Add(One, rate), t + 1)),
             DiscountedSum(kept, rate, t + 1))

\* the series with the entries at the positions in mask negated
Negated(cash_flows, mask) ==
    [i \in 1..Len(cash_flows) |->
        IF i \in mask THEN Neg(cash_flows[i]) ELSE cash_flows[i]]

\* C1: for a discount rate other than -1, calculate_npv returns the sum over
\* the kept entries (None/NaN removed, not zeroed) of |cf_t| / (1+r)^(t+1),
\* t the 0-based position among the kept entries; the result is the same
\* with any subset of entries negated, and is 0.0 when no entry is kept.
NpvContract ==
    (Made("calculate_npv") /\ req.discount_rate # MinusOne) =>
        /\ res = Return(DiscountedSum(Kept(req.cash_flows), req.discount_rate, 0))
        /\ \A mask \in SUBSET (1..Len(req.cash_flows)) :
               calculate_npv(Negated(req.cash_flows, mask), req.discount_rate) = res
        /\ (Kept(req.cash_flows) = <<>>) => (res = Return(Zero))

\* a call that drops an entry ahead of a kept negative one, and discounts
NpvContractWitness ==
    /\ Made("calculate_npv")
    /\ req.discount_rate = Q(1, 10)
    /\ req.cash_flows = <<NaN, Q(-10, 1), Q(5, 1)>>
    /\ res = Return(Q(1600, 121))

\* what C2 states of a call with all three arguments present
ClaimedTaxShield(debt, tax_rate, cost_of_debt) ==
    IF cost_of_debt = Zero THEN Mul(debt, tax_rate)
    ELSE Mul(Mul(debt, tax_rate), Sub(One, Div(One, Add(One, cost_of_debt))))

\* C2: calculate_tax_shield returns 0.0 when any argument is absent;
\* otherwise debt * tax_rate at cost_of_debt = 0 and
\* debt * tax_rate * (1 - 1/(1 + cost_of_debt)) for every other cost_of_debt.
TaxShieldContract ==
    Made("calculate_tax_shield") =>
        IF None \in {req.debt, req.tax_rate, req.cost_of_debt}
        THEN res = Return(Zero)
        ELSE /\ res.kind = "return"
             /\ res.v = ClaimedTaxShield(req.debt, req.tax_rate, req.cost_of_debt)

\* C3: for fixed debt and tax_rate the results for positive cost_of_debt
\* approach the result at cost_of_debt = 0 as cost_of_debt decreases to 0:
\* their distance to it is at most |debt * tax_rate| * cost_of_debt.
TaxShieldLimitAtZero ==
    (/\ Made("calculate_tax_shield")
     /\ IsNum(req.debt) /\ IsNum(req.tax_rate) /\ IsNum(req.cost_of_debt)
     /\ req.cost_of_debt.n > 0) =>
        /\ res.kind = "return"
        /\ Leq(AbsV(Sub(res.v, calculate_tax_shield(req.debt, req.tax_rate, Zero).v)),
               Mul(AbsV(Mul(req.debt, req.tax_rate)), req.cost_of_debt))

\* C8: sensitivity_analysis returns the variations unchanged and, index by
\* index, values[i] = base_value * (1 + variations[i]), of the same length.
SensitivityAligned ==
    Made("sensitivity_analysis") =>
        /\ res.kind = "return"
        /\ res.v.variations = req.variations
        /\ Len(res.v.values) = Len(req.variations)
        /\ \A i \in 1..Len(req.variations) :
               res.v.values[i] = Mul(req.base_value, Add(One, req.variations[i]))

\* an unsorted list with a duplicate
SensitivityAlignedWitness ==
    /\ Made("sensitivity_analysis")
    /\ req.base_value = Q(100, 1)
    /\ req.variations = <<Q(1, 10), Q(-1, 5), Q(1, 10)>>
    /\ res.v.values = <<Q(110, 1), Q(80, 1), Q(110, 1)>>

EngineOps ==
    {"calculate_npv", "calculate_tax_shield", "calculate_apv",
     "sensitivity_analysis"}

\* the arguments of the call are all numbers (none absent, none NaN)
NumericCall ==
    CASE req.op = "calculate_npv" ->
             /\ \A i \in 1..Len(req.cash_flows) : IsNum(req.cash_flows[i])
             /\ IsNum(req.discount_rate)
      [] req.op = "calculate_tax_shield" ->
             IsNum(req.debt) /\ IsNum(req.tax_rate) /\ IsNum(req.cost_of_debt)
      [] req.op = "calculate_apv" -> IsNum(req.npv) /\ IsNum(req.tax_shield)
      [] req.op = "sensitivity_analysis" -> IsNum(req.base_value)
      [] OTHER -> FALSE

\* C9: over numeric inputs the only engine call that fails is calculate_npv
\* with discount_rate = -1 on a series with a kept entry; every other engine
\* call returns a value.
OnlyNpvAtMinusOneFails ==
    (req.op \in EngineOps /\ res # Pending /\ NumericCall) =>
        (res.kind = "raise" <=>
            /\ req.op = "calculate_npv"
            /\ req.discount_rate = MinusOne
            /\ Kept(req.cash_flows) # <<>>)

---------------------------------------------------------------------------
(* Claims about the financial data adapter.                                *)

SnapshotFields ==
    {"operating_cashflow", "total_debt", "effective_tax_rate",
     "balance_sheet", "income_stmt", "cashflow"}

Fetched == Made("get_financial_data") /\ req.response.kind = "tables"

\* C4: when the external fetch fails, get_financial_data ends in one error
\* that names the requested ticker and carries the cause, and returns no
\* snapshot: nothing with a snapshot field comes out of a failed call.
FetchFailureIsOneError ==
    (Made("get_financial_data") /\ req.response.kind = "raise") =>
        /\ res.kind = "raise"
        /\ res.v.ticker = req.ticker
        /\ res.v.cause = req.response.cause
        /\ DOMAIN res.v \cap SnapshotFields = {}

FetchFailureIsOneErrorWitness ==
    /\ Made("get_financial_data")
    /\ req.ticker = "MSFT"
    /\ req.response = [kind |-> "raise", cause |-> "ConnectionError"]
    /\ res.kind = "raise"

\* C5: the operating cash flow is the row "Operating Cash Flow" when it
\* exists (also beside the other label), else the row "Total Cash From
\* Operating Activities" when it exists, else four zeros; never an error.
OperatingCashflowFallback ==
    Fetched =>
        LET c == req.response.cashflow
            new == "Operating Cash Flow" \in DOMAIN c
            old == "Total Cash From Operating Activities" \in DOMAIN c
        IN  /\ res.kind = "return"
            /\ new => res.v.operating_cashflow = c["Operating Cash Flow"]
            /\ (~new /\ old) =>
                   res.v.operating_cashflow = c["Total Cash From Operating Activities"]
            /\ (~new /\ ~old) =>
                   res.v.operating_cashflow = <<Zero, Zero, Zero, Zero>>

\* both rows exist and differ
OperatingCashflowFallbackWitness ==
    /\ Fetched
    /\ {"Operating Cash Flow", "Total Cash From Operating Activities"}
           \subseteq DOMAIN req.response.cashflow
    /\ req.response.cashflow["Operating Cash Flow"] = <<Q(-6, 1), NaN>>
    /\ req.response.cashflow["Total Cash From Operating Activities"] = <<Q(4, 1), Q(4, 1)>>
    /\ res.v.operating_cashflow = <<Q(-6, 1), NaN>>

\* C6: the total debt is the most-recent-column value of the first label
\* present in the order Total Debt, Long Term Debt, Total Long Term Debt,
\* and 0 when none of the three is present.
TotalDebtPriority ==
    Fetched =>
        LET b == req.response.balance_sheet
            order == <<"Total Debt", "Long Term Debt", "Total Long Term Debt">>
        IN  /\ res.kind = "return"
            /\ \A i \in 1..3 :
                   (/\ order[i] \in DOMAIN b
                    /\ \A j \in 1..(i - 1) : order[j] \notin DOMAIN b) =>
                       res.v.total_debt = Head(b[order[i]])
            /\ (\A i \in 1..3 : order[i] \notin DOMAIN b) => res.v.total_debt = Zero

\* the first label is absent, the two others differ, and so do the columns
TotalDebtPriorityWitness ==
    /\ Fetched
    /\ DOMAIN req.response.balance_sheet = {"Long Term Debt", "Total Long Term Debt"}
    /\ req.response.balance_sheet["Long Term Debt"] = <<Q(7, 1), Q(0, 1)>>
    /\ req.response.balance_sheet["Total Long Term Debt"] = <<Q(0, 1), Q(7, 1)>>
    /\ res.v.total_debt = Q(7, 1)

\* C7: the effective tax rate is tax_expense / pretax_income of the most
\* recent column when both rows exist and pretax_income is not 0; it is
\* 0.25 when pretax_income is 0 and 0.25 when either row is absent.
TaxRateFallback ==
    Fetched =>
        LET s == req.response.income_stmt
            both == {"Income Tax Expense", "Pretax Income"} \subseteq DOMAIN s
        IN  /\ res.kind = "return"
            /\ (both /\ Head(s["Pretax Income"]) # Zero) =>
                   res.v.effective_tax_rate =
                       Div(Head(s["Income Tax Expense"]), Head(s["Pretax Income"]))
            /\ (both /\ Head(s["Pretax Income"]) = Zero) =>
                   res.v.effective_tax_rate = Q(1, 4)
            /\ ~both => res.v.effective_tax_rate = Q(1, 4)

\* a zero pretax income beside a tax expense that is not zero
TaxRateFallbackWitness ==
    /\ Fetched
    /\ {"Income Tax Expense", "Pretax Income"} \subseteq DOMAIN req.response.income_stmt
    /\ req.response.income_stmt["Pretax Income"] = <<Zero, Q(3, 1)>>
    /\ req.response.income_stmt["Income Tax Expense"] = <<Q(3, 1), Q(3, 1)>>
    /\ res.v.effective_tax_rate = Q(1, 4)

---------------------------------------------------------------------------
(* The session: src/app.py, main(). Streamlit runs main() from top to      *)
(* bottom on every interaction; st.session_state.financial_data is all     *)
(* that survives from one run to the next.                                 *)

Loaded(snapshot) == [kind |-> "snapshot", v |-> snapshot]

\* mutant: a failed fetch empties the slot
StoreFetchedOrClear(slot, fetched) ==
    IF fetched.kind = "return" THEN Loaded(fetched.v) ELSE NoData

\* lines 19-21 and 37-38: the assignment of line 21 happens only when
\* get_financial_data returned; when it raised, line 38 shows the error
StoreFetched(slot, fetched) ==
    IF fetched.kind = "return" THEN Loaded(fetched.v) ELSE slot

\* line 46: operating_cashflow[:5]
FirstFive(s) == SubSeq(s, 1, IF Len(s) < 5 THEN Len(s) ELSE 5)

\* lines 45-53
CashFlowsUsed(slot, w) ==
    IF slot # NoData THEN FirstFive(slot.v.operating_cashflow)
    ELSE w.manual_cash_flows

\* lines 56-63: the default of the tax-rate widget, in percent
TaxRateDefaultPercent(slot) ==
    IF slot # NoData THEN Mul(slot.v.effective_tax_rate, Q(100, 1))
    ELSE Q(25, 1)

\* lines 56-63: the widget's value (its default unless edited) / 100
TaxRateUsed(slot, w) ==
    Div(IF w.tax_percent = None THEN TaxRateDefaultPercent(slot) ELSE w.tax_percent,
        Q(100, 1))

\* lines 60 and 64
DebtUsed(slot, w) ==
    IF slot # NoData THEN slot.v.total_debt ELSE w.manual_debt

\* lines 40-154 for the slot as it stands after lines 18-38
Computed(slot, w, error) ==
    LET cash_flows == CashFlowsUsed(slot, w)
        tax_rate == TaxRateUsed(slot, w)
        debt == DebtUsed(slot, w)
        npv == calculate_npv(cash_flows, w.discount_rate)
        tax_shield == calculate_tax_shield(debt, tax_rate, w.cost_of_debt)
        apv == calculate_apv(npv.v, tax_shield.v)
    IN  [run |-> view.run + 1,
         error |-> error,
         cash_flows |-> cash_flows,
         tax_default |-> TaxRateDefaultPercent(slot),
         tax_rate |-> tax_rate,
         debt |-> debt,
         npv |-> npv,
         tax_shield |-> tax_shield,
         apv |-> apv,
         sensitivity |->
             sensitivity_analysis(apv.v,
                 <<Q(-1, 5), Q(-1, 10), Q(0, 1), Q(1, 10), Q(1, 5)>>)]

(* The provider's statements are a function of the ticker; a fetch of a    *)
(* listed ticker returns them or fails, a fetch of an unlisted one fails.  *)

Listed == {"AAPL", "MSFT"}
SessionTickers == Listed \cup {"ZZZZ"}

StatementsOf(ticker) ==
    IF ticker = "AAPL"
    THEN Tables([l \in {"Total Debt", "Long Term Debt"} |->
                    IF l = "Total Debt" THEN <<Q(12, 1), Q(11, 1)>>
                    ELSE <<Q(9, 1), Q(8, 1)>>],
                [l \in IncomeLabels |->
                    IF l = "Pretax Income" THEN <<Q(20, 1), Q(16, 1)>>
                    ELSE <<Q(3, 1), Q(4, 1)>>],
                [l \in {"Operating Cash Flow"} |->
                    <<Q(12, 1), Q(-10, 1), NaN, Q(8, 1), Q(7, 1), Q(6, 1)>>])
    ELSE Tables([l \in {"Total Long Term Debt"} |-> <<Q(4, 1)>>],
                [l \in IncomeLabels |->
                    IF l = "Pretax Income" THEN <<Q(0, 1)>> ELSE <<Q(1, 1)>>],
                [l \in {"Total Cash From Operating Activities"} |-> <<Q(5, 1)>>])

ProviderResponses(ticker) ==
    IF ticker \in Listed
    THEN {StatementsOf(ticker), [kind |-> "raise", cause |-> "ConnectionError"]}
    ELSE {[kind |-> "raise", cause |-> "KeyError"]}

\* the widgets of the sidebar: rates in [0, 1], manual inputs when no data
Widgets ==
    [discount_rate : {Q(0, 1), Q(1, 2)},
     cost_of_debt : {Q(0, 1), Q(1, 20)},
     tax_percent : {None, Q(30, 1)},
     manual_cash_flows : {<<Q(10, 1)>>, <<Q(10, 1), Q(10, 1)>>},
     manual_debt : {Q(10, 1)}]

InitSession ==
    /\ req = NoRequest
    /\ res = Pending
    /\ financial_data = NoData
    /\ lastFetch = NoFetch
    /\ lastLoaded = "-"
    /\ view = NoView

\* a run of main() started by the button "Carica Dati" (line 18 true)
CaricaDati ==
    /\ view.run < MaxRuns
    /\ \E ticker \in SessionTickers, w \in Widgets :
         \E response \in ProviderResponses(ticker) :
           LET fetched == get_financial_data(ticker, response)
               slot == StoreFetched(financial_data, fetched)
           IN  /\ financial_data' = slot
               /\ lastFetch' = [ticker |-> ticker, outcome |-> fetched]
               /\ lastLoaded' = IF fetched.kind = "return" THEN ticker ELSE lastLoaded
               /\ view' = Computed(slot, w, fetched.kind = "raise")
    /\ UNCHANGED <<req, res>>

\* a run of main() started by any other widget (line 18 false)
Rerun ==
    /\ view.run < MaxRuns
    /\ \E w \in Widgets : view' = Computed(financial_data, w, FALSE)
    /\ UNCHANGED <<req, res, financial_data, lastFetch, lastLoaded>>

NextSession ==
    \/ CaricaDati
    \/ Rerun

SpecSession == InitSession /\ [][NextSession]_vars

---------------------------------------------------------------------------
(* Claims about the session.                                               *)

\* what a fetch of the ticker returns when it returns
StatementsOfSnapshot(ticker) ==
    LET t == StatementsOf(ticker)
    IN  [operating_cashflow |->
             IF "Operating Cash Flow" \in DOMAIN t.cashflow
             THEN t.cashflow["Operating Cash Flow"]
             ELSE t.cashflow["Total Cash From Operating Activities"],
         total_debt |->
             IF "Total Debt" \in DOMAIN t.balance_sheet
             THEN Head(t.balance_sheet["Total Debt"])
             ELSE Head(t.balance_sheet["Total Long Term Debt"]),
         effective_tax_rate |->
             IF Head(t.income_stmt["Pretax Income"]) = Zero THEN Q(1, 4)
             ELSE Div(Head(t.income_stmt["Income Tax Expense"]),
                      Head(t.income_stmt["Pretax Income"])),
         balance_sheet |-> t.balance_sheet,
         income_stmt |-> t.income_stmt,
         cashflow |-> t.cashflow]

\* the engine inputs main() takes from a snapshot
InputsFrom(snapshot) ==
    /\ view.cash_flows = FirstFive(snapshot.operating_cashflow)
    /\ view.debt = snapshot.total_debt
    /\ view.tax_default = Mul(snapshot.effective_tax_rate, Q(100, 1))

\* C10 as stated: after any fetches, failed ones included, what the slot
\* holds is the result of the most recent fetch, so the engine inputs taken
\* from the slot belong to the most recently fetched ticker.
SlotHoldsLastFetch ==
    (lastFetch # NoFetch /\ financial_data # NoData) =>
        /\ lastFetch.ticker \in Listed
        /\ financial_data = Loaded(StatementsOfSnapshot(lastFetch.ticker))
        /\ InputsFrom(StatementsOfSnapshot(lastFetch.ticker))

\* C10 as amended: the slot is empty until a fetch returns, and then holds
\* the snapshot of the most recent fetch that returned (a failed fetch
\* leaves it as it was); the engine inputs of a run come from that snapshot.
SlotHoldsLastLoaded ==
    /\ (financial_data = NoData) <=> (lastLoaded = "-")
    /\ (view.run > 0 /\ lastLoaded # "-") =>
           /\ financial_data = Loaded(StatementsOfSnapshot(lastLoaded))
           /\ InputsFrom(StatementsOfSnapshot(lastLoaded))

\* a failed fetch of a second ticker after a fetch that returned
SlotHoldsLastLoadedWitness ==
    /\ lastLoaded = "AAPL"
    /\ lastFetch.ticker = "MSFT"
    /\ lastFetch.outcome.kind = "raise"
    /\ view.error
    /\ view.cash_flows = <<Q(12, 1), Q(-10, 1), NaN, Q(8, 1), Q(7, 1)>>
    /\ view.debt = Q(12, 1)

=============================================================================
